---- MODULE Spec2Model ----
(***************************************************************************)
(* A model of src/crbm.py: the Conditional Restricted Boltzmann Machine    *)
(* (class CRBM) with its CD-k training step, and the index arithmetic of   *)
(* the mini-batch driver train_crbm.                                       *)
(*                                                                         *)
(* Numbers.  floatX values are modelled as exact rationals <<n, d>> in     *)
(* lowest terms with d > 0, so that the algebra of the update rule is      *)
(* exact.  The logistic function has no rational values; it is modelled by *)
(* a three-level quantisation (see sigmoid).  The random streams are       *)
(* seeded: a draw of theano_rng.binomial compares the probability with the *)
(* next deviate of a stream fixed by the seed (see uniform, binomial).     *)
(* Tensors are sequences: a vector is a sequence of rationals, a matrix a  *)
(* sequence of rows.                                                       *)
(***************************************************************************)
EXTENDS Integers, Sequences, FiniteSets, TLC

VARIABLES
    n_visible, n_hidden, delay,     \* self.n_visible, self.n_hidden, self.delay
    rng_seed,                       \* the seed of numpy_rng and of theano_rng
    W, A, B, hbias, vbias,          \* the five shared parameters (self.params)
    lr, k,                          \* arguments of get_cost_updates
    pc,                             \* position of the CRBM program
    input, input_history,           \* x and x_history of the running call
    ph_sample,                      \* positive-phase hidden sample
    v_cur,                          \* output of sample_v_given_h inside a step
    chain,                          \* the outputs of the scan, one record a step
    chain_end,                      \* nv_samples[-1] of the last finished step
    rng,                            \* number of draws taken from theano_rng
    gparams,                        \* the gradients of the last finished step
    cost,                           \* the monitoring cost of the last step
    status,                         \* outcome of the last call
    steps,                          \* number of finished training steps
    seqlen, batch_size,             \* train_crbm: len(dataset), batch_size
    training_epochs,                \* train_crbm: training_epochs
    permindex,                      \* train_crbm: shuffled start indices
    epoch, batch_index,             \* train_crbm: loop counters
    data_idx, hist_idx,             \* train_crbm: arguments of the last call
    n_calls,                        \* train_crbm: calls of the training function
    dpc                             \* position of the driver train_crbm

crbm_vars == <<n_visible, n_hidden, rng_seed, W, A, B, hbias, vbias, lr, k, pc,
               input, input_history, ph_sample, v_cur, chain, chain_end, rng,
               gparams, cost, status, steps>>

driver_vars == <<seqlen, batch_size, training_epochs, permindex, epoch,
                 batch_index, data_idx, hist_idx, n_calls, dpc>>

vars == <<crbm_vars, delay, driver_vars>>

(***************************************************************************)
(* Bounds of the model.                                                    *)
(***************************************************************************)
MaxDelay == 2
MaxBatch == 2
MaxK == 2
MaxSteps == 2
MaxDenominator == 1000
MaxSeqLen == 5
MaxEpochs == 2

(***************************************************************************)
(* Exact rational arithmetic for floatX values.                            *)
(***************************************************************************)
Abs(n) == IF n < 0 THEN -n ELSE n

RECURSIVE GCD(_, _)
GCD(a, b) == IF b = 0 THEN a ELSE GCD(b, a % b)

Rat(n, d) ==
    LET g == GCD(Abs(n), d) IN <<n \div g, d \div g>>

FromInt(n) == <<n, 1>>

RZero == FromInt(0)

RAdd(p, q) ==
    LET g == GCD(p[2], q[2])
        l == (p[2] \div g) * q[2]
    IN Rat(p[1] * (l \div p[2]) + q[1] * (l \div q[2]), l)

RNeg(p) == <<-p[1], p[2]>>

RSub(p, q) == RAdd(p, RNeg(q))

RMul(p, q) ==
    LET g1 == GCD(Abs(p[1]), q[2])
        g2 == GCD(Abs(q[1]), p[2])
    IN <<(p[1] \div g1) * (q[1] \div g2), (p[2] \div g2) * (q[2] \div g1)>>

RDivInt(p, n) == RMul(p, <<1, n>>)

RSqr(p) == RMul(p, p)

RSign(p) == IF p[1] < 0 THEN -1 ELSE IF p[1] = 0 THEN 0 ELSE 1

RECURSIVE RSum(_)
RSum(s) == IF s = <<>> THEN RZero ELSE RAdd(s[1], RSum(Tail(s)))

(***************************************************************************)
(* Tensors.                                                                *)
(***************************************************************************)
\* The sequence with the elements of the function f on 1..n, evaluated.
AsSeq(f) == f \o <<>>

Rows(M) == Len(M)

Cols(M) == IF Len(M) = 0 THEN 0 ELSE Len(M[1])

Shape(M) == <<Rows(M), Cols(M)>>

Transpose(M) ==
    AsSeq([c \in 1..Cols(M) |-> AsSeq([r \in 1..Rows(M) |-> M[r][c]])])

\* T.dot(X, Y) for matrices; Theano raises ValueError unless DotOK.
DotOK(X, Y) == Cols(X) = Rows(Y)

Dot(X, Y) ==
    AsSeq([r \in 1..Rows(X) |->
        AsSeq([c \in 1..Cols(Y) |->
            RSum(AsSeq([m \in 1..Cols(X) |-> RMul(X[r][m], Y[m][c])]))])])

\* Elementwise + and - of two matrices; neither is declared broadcastable,
\* so Theano raises ValueError unless the shapes agree.
ElemwiseOK_broadcast(X, Y) ==
    Shape(X) = Shape(Y) \/ (Rows(X) = 1 /\ Cols(X) = Cols(Y))

ElemwiseOK(X, Y) == Shape(X) = Shape(Y)

MAdd(X, Y) ==
    AsSeq([r \in 1..Rows(X) |->
        AsSeq([c \in 1..Cols(X) |-> RAdd(X[r][c], Y[r][c])])])

MSub(X, Y) ==
    AsSeq([r \in 1..Rows(X) |->
        AsSeq([c \in 1..Cols(X) |-> RSub(X[r][c], Y[r][c])])])

\* matrix + vector: the vector is broadcast over the rows.
AddRow(X, v) ==
    AsSeq([r \in 1..Rows(X) |->
        AsSeq([c \in 1..Cols(X) |-> RAdd(X[r][c], v[c])])])

MScale(X, s) ==
    AsSeq([r \in 1..Rows(X) |->
        AsSeq([c \in 1..Cols(X) |-> RMul(X[r][c], s)])])

VSub(u, v) == AsSeq([i \in 1..Len(u) |-> RSub(u[i], v[i])])

VScale(u, s) == AsSeq([i \in 1..Len(u) |-> RMul(u[i], s)])

\* T.mean over axis 0 of a matrix: one value a column.
MeanRows(X) ==
    AsSeq([c \in 1..Cols(X) |->
        RDivInt(RSum(AsSeq([r \in 1..Rows(X) |-> X[r][c]])), Rows(X))])

\* T.mean of a vector.
Mean(v) == RDivInt(RSum(v), Len(v))

\* T.sum(., axis=1) of a matrix: one value a row.
SumAxis1(X) == AsSeq([r \in 1..Rows(X) |-> RSum(X[r])])

(***************************************************************************)
(* class CRBM.                                                             *)
(***************************************************************************)
Hundredth == <<1, 100>>

\* numpy_rng.randn: the i-th draw of the stream seeded with seed, a
\* three-valued stand-in for a standard normal deviate.
randn(seed, i) == FromInt(((seed + i) % 3) - 1)

\* 0.01 * numpy_rng.randn(rows, cols), drawn row by row from position off.
initial_matrix(seed, off, rows, cols) ==
    AsSeq([r \in 1..rows |->
        AsSeq([c \in 1..cols |-> RMul(Hundredth, randn(seed, off + (r - 1) * cols + c))])])

\* A parameter matrix handed to the constructor (W, A or B not None): small
\* integers.
shared_matrix(seed, off, rows, cols) ==
    AsSeq([r \in 1..rows |->
        AsSeq([c \in 1..cols |-> randn(seed, off + (r - 1) * cols + c)])])

\* numpy.zeros(n)
zeros(n) == AsSeq([i \in 1..n |-> RZero])

\* T.nnet.sigmoid, quantised to three levels: it keeps the range (0, 1),
\* the value 1/2 at 0 and monotonicity.
sigmoid(a) ==
    IF RSign(a) < 0 THEN <<1, 4>> ELSE IF RSign(a) = 0 THEN <<1, 2>> ELSE <<3, 4>>

\* The uniform deviate number pos of the stream theano_rng, which is seeded
\* once: a four-valued stand-in, one of 1/8, 3/8, 5/8, 7/8.
uniform(pos) ==
    <<2 * ((rng_seed + 3 * pos + (pos \div 2)) % 4) + 1, 8>>

RLess(p, q) == p[1] * q[2] < q[1] * p[2]

\* theano_rng.binomial(size=p.shape, n=1, p=p, dtype=floatX) drawn from
\* position pos of the stream on: element (r, c) is 1 when its deviate is
\* below p[r][c].
binomial(p, pos) ==
    AsSeq([r \in 1..Rows(p) |->
        AsSeq([c \in 1..Cols(p) |->
            IF RLess(uniform(pos + (r - 1) * Cols(p) + c), p[r][c])
            THEN FromInt(1) ELSE FromInt(0)])])

\* Whether the graph of propup can be evaluated on these shapes.
propup_ok(vis, v_history) ==
    /\ DotOK(vis, W)
    /\ DotOK(v_history, B)
    /\ ElemwiseOK(Dot(vis, W), Dot(v_history, B))

propup(vis, v_history) ==
    LET pre_sigmoid_activation ==
            AddRow(MAdd(Dot(vis, W), Dot(v_history, B)), hbias)
    IN [pre |-> pre_sigmoid_activation,
        mean |-> AsSeq([r \in 1..Rows(pre_sigmoid_activation) |->
                    AsSeq([c \in 1..Cols(pre_sigmoid_activation) |->
                        sigmoid(pre_sigmoid_activation[r][c])])])]

\* pos is the number of deviates theano_rng has handed out so far.
sample_h_given_v(v0_sample, v_history, pos) ==
    LET up == propup(v0_sample, v_history)
    IN [pre_sigmoid_h1 |-> up.pre,
        h1_mean |-> up.mean,
        h1_sample |-> binomial(up.mean, pos),
        draws |-> Rows(up.mean) * Cols(up.mean)]

propdown_ok(hid, v_history) ==
    /\ DotOK(hid, Transpose(W))
    /\ DotOK(v_history, A)
    /\ ElemwiseOK(Dot(hid, Transpose(W)), Dot(v_history, A))

propdown(hid, v_history) ==
    AddRow(MAdd(Dot(hid, Transpose(W)), Dot(v_history, A)), vbias)

\* The sampling the source has commented out: a binomial draw around the mean.
sample_v_given_h_noisy(h0_sample, v_history) ==
    LET v1_mean == propdown(h0_sample, v_history)
    IN [v1_mean |-> v1_mean,
        v1_sample |-> binomial(v1_mean, rng),
        draws |-> Rows(v1_mean) * Cols(v1_mean)]

sample_v_given_h(h0_sample, v_history) ==
    LET v1_mean == propdown(h0_sample, v_history)
    IN [v1_mean |-> v1_mean, v1_sample |-> v1_mean, draws |-> 0]

\* free_energy: the visible term, one value a row.  (The hidden term
\* sum(log(1 + exp(wx_b))) enters the model through its derivative, sigmoid.)
free_energy_ok(v_sample, v_history) ==
    /\ propup_ok(v_sample, v_history)
    /\ DotOK(v_history, A)
    /\ ElemwiseOK(v_sample, Dot(v_history, A))

visible_term(v_sample, v_history, Am, vb) ==
    LET ax_b == AddRow(Dot(v_history, Am), vb)
        d == MSub(v_sample, ax_b)
    IN AsSeq([r \in 1..Rows(d) |->
          RMul(<<1, 2>>, RSum(AsSeq([c \in 1..Cols(d) |-> RSqr(d[r][c])])))])

\* The gradient of T.mean(free_energy(v, v_history)) with respect to each
\* parameter, v being a constant of the differentiation.
grad_mean_free_energy(v, v_history) ==
    LET n == Rows(v)
        p == propup(v, v_history).mean
        ax_b == AddRow(Dot(v_history, A), vbias)
        res == MSub(v, ax_b)
        minus(M) == MScale(M, <<-1, n>>)
    IN [W |-> minus(Dot(Transpose(v), p)),
        A |-> minus(Dot(Transpose(v_history), res)),
        B |-> minus(Dot(Transpose(v_history), p)),
        hbias |-> VScale(MeanRows(p), FromInt(-1)),
        vbias |-> VScale(MeanRows(res), FromInt(-1))]

\* The derivative of free_energy(c, v_history) with respect to c, row by row.
grad_free_energy_wrt_v(c, v_history) ==
    LET p == propup(c, v_history).mean
        ax_b == AddRow(Dot(v_history, A), vbias)
    IN MSub(MSub(c, ax_b), Dot(p, Transpose(W)))

\* T.grad(cost, params) without consider_constant: the chain end
\* c = hid . W^T + v_history . A + vbias also moves with vbias and A.
T_grad_through_chain(x, v_history, c_end) ==
    LET pos == grad_mean_free_energy(x, v_history)
        neg == grad_mean_free_energy(c_end, v_history)
        dc == grad_free_energy_wrt_v(c_end, v_history)
        n == Rows(x)
    IN [W |-> MSub(pos.W, neg.W),
        A |-> MSub(MSub(pos.A, neg.A), MScale(Dot(Transpose(v_history), dc), <<1, n>>)),
        B |-> MSub(pos.B, neg.B),
        hbias |-> VSub(pos.hbias, neg.hbias),
        vbias |-> VSub(VSub(pos.vbias, neg.vbias), MeanRows(dc))]

\* T.grad(cost, self.params, consider_constant=[chain_end]) for
\* cost = mean(free_energy(x, h)) - mean(free_energy(chain_end, h)).
T_grad(x, v_history, c_end) ==
    LET pos == grad_mean_free_energy(x, v_history)
        neg == grad_mean_free_energy(c_end, v_history)
    IN [W |-> MSub(pos.W, neg.W),
        A |-> MSub(pos.A, neg.A),
        B |-> MSub(pos.B, neg.B),
        hbias |-> VSub(pos.hbias, neg.hbias),
        vbias |-> VSub(pos.vbias, neg.vbias)]

\* One pass of the loop over zip(gparams, self.params), for one element.
update_rule_undamped(name, param, gparam) ==
    RSub(param, RMul(gparam, lr))

update_rule(name, param, gparam) ==
    IF name = "A"
    THEN RSub(param, RMul(RMul(gparam, Hundredth), lr))
    ELSE RSub(param, RMul(gparam, lr))

updated_matrix_transposed(name, param, gparam) ==
    AsSeq([c \in 1..Cols(param) |->
        AsSeq([r \in 1..Rows(param) |-> update_rule(name, param[r][c], gparam[r][c])])])

updated_matrix(name, param, gparam) ==
    AsSeq([r \in 1..Rows(param) |->
        AsSeq([c \in 1..Cols(param) |-> update_rule(name, param[r][c], gparam[r][c])])])

updated_vector(name, param, gparam) ==
    AsSeq([i \in 1..Len(param) |-> update_rule(name, param[i], gparam[i])])

\* get_reconstruction_cost: sum over dimensions, mean over cases.
get_reconstruction_cost(x, pre_sigmoid_nv) ==
    LET d == MSub(x, pre_sigmoid_nv)
    IN Mean(AsSeq([r \in 1..Rows(d) |-> RSum(AsSeq([c \in 1..Cols(d) |-> RSqr(d[r][c])]))]))

\* seq[-1] and seq[0] of a non-empty sequence.
First(s) == s[1]

Last(s) == s[Len(s)]

\* nv_means[-1], the visible mean handed to get_reconstruction_cost.
nv_means_first(nv_means) == First(nv_means)

nv_means_at_end(nv_means) == Last(nv_means)

\* theano.scan with outputs_info = [None, None, None, None, chain_start]:
\* the hidden state a step starts from.
scan_restart(chain_start, outputs) == chain_start

scan_state(chain_start, outputs) ==
    IF outputs = <<>> THEN chain_start ELSE Last(outputs).h1_sample

(***************************************************************************)
(* The CRBM as a state machine: construction, get_cost_updates (which      *)
(* builds the training function), and calls of the training function.  A   *)
(* call runs the positive phase, the k steps of the scan and then the      *)
(* gradient and the updates.                                               *)
(***************************************************************************)
LearningRates == {FromInt(1), <<1, 2>>}

\* The (n_visible, n_hidden) of the machines the model builds.
Sizes == {<<1, 1>>, <<1, 2>>, <<2, 1>>}

\* The seeds of the random number generators.
Seeds == {0, 1}

\* The frames a caller may pass: small integers, varying with row, column
\* and call.
frames(rows, cols, s) ==
    AsSeq([r \in 1..rows |->
        AsSeq([c \in 1..cols |-> FromInt(((s + 2 * r + c) % 3) - 1)])])

NoCall ==
    /\ seqlen = 0 /\ batch_size = 0 /\ training_epochs = 0
    /\ permindex = <<>> /\ epoch = 0 /\ batch_index = 0
    /\ data_idx = <<>> /\ hist_idx = <<>> /\ n_calls = 0 /\ dpc = "off"

\* CRBM.__init__: W, A and B are either all left at None and drawn from
\* numpy_rng, or all handed in by the caller; hbias and vbias are left at None.
Init ==
    /\ \E size \in Sizes : n_visible = size[1] /\ n_hidden = size[2]
    /\ delay \in 1..MaxDelay
    /\ rng_seed \in Seeds
    /\ \E given \in BOOLEAN :
         LET seed == rng_seed
             offA == n_visible * n_hidden
             offB == offA + n_visible * delay * n_visible
         IN IF given
            THEN /\ W = shared_matrix(seed, 0, n_visible, n_hidden)
                 /\ A = shared_matrix(seed, offA, n_visible * delay, n_visible)
                 /\ B = shared_matrix(seed, offB, n_visible * delay, n_hidden)
            ELSE /\ W = initial_matrix(seed, 0, n_visible, n_hidden)
                 /\ A = initial_matrix(seed, offA, n_visible * delay, n_visible)
                 /\ B = initial_matrix(seed, offB, n_visible * delay, n_hidden)
    /\ hbias = zeros(n_hidden)
    /\ vbias = zeros(n_visible)
    /\ lr = RZero /\ k = 0
    /\ pc = "constructed"
    /\ input = <<>> /\ input_history = <<>>
    /\ ph_sample = <<>> /\ v_cur = <<>> /\ chain = <<>> /\ chain_end = <<>>
    /\ rng = 0
    /\ gparams = <<>>
    /\ cost = RZero
    /\ status = "none"
    /\ steps = 0
    /\ NoCall

\* get_cost_updates(lr, k) followed by theano.function: the graph is built
\* for any k, no argument is checked.
get_cost_updates ==
    /\ pc = "constructed"
    /\ \E rate \in LearningRates, n \in 0..MaxK :
         /\ lr' = rate
         /\ k' = n
    /\ pc' = "ready"
    /\ UNCHANGED <<n_visible, n_hidden, delay, rng_seed, W, A, B, hbias, vbias,
                   input, input_history, ph_sample, v_cur, chain, chain_end, rng,
                   gparams, cost, status, steps, driver_vars>>

\* Whether every node of the graph can be evaluated on x and x_history.
call_ok(x, x_history) ==
    /\ propup_ok(x, x_history)
    /\ propdown_ok(AsSeq([r \in 1..Rows(x) |-> zeros(n_hidden)]), x_history)
    /\ free_energy_ok(x, x_history)

\* Whether every element of the parameters is a fraction the arithmetic of
\* the model can carry through one more step.
in_range(M) ==
    \A r \in 1..Rows(M) : \A c \in 1..Cols(M) :
        M[r][c][2] <= MaxDenominator /\ Abs(M[r][c][1]) <= MaxDenominator

params_in_range ==
    /\ in_range(W) /\ in_range(A) /\ in_range(B)
    /\ in_range(<<hbias>>) /\ in_range(<<vbias>>)

\* A call of the training function.  A shape mismatch raises ValueError in
\* the first node that meets it, before any update is applied; otherwise the
\* positive phase runs (sample_h_given_v on the input).
train_call ==
    /\ pc = "ready"
    /\ steps < MaxSteps
    /\ params_in_range
    /\ \E rx \in 1..MaxBatch, rh \in 1..MaxBatch,
          ch \in {n_visible * delay, n_visible * delay + 1} :
         LET x == frames(rx, n_visible, steps)
             x_history == frames(rh, ch, steps + 1)
         IN /\ input' = x
            /\ input_history' = x_history
            /\ IF call_ok(x, x_history)
               THEN LET ph == sample_h_given_v(x, x_history, rng)
                    IN /\ ph_sample' = ph.h1_sample
                       /\ rng' = rng + ph.draws
                       /\ pc' = IF k >= 1 THEN "sample_v" ELSE "grad"
                       /\ status' = "running"
               ELSE /\ status' = "ValueError"
                    /\ pc' = "ready"
                    /\ UNCHANGED <<ph_sample, rng>>
    /\ steps' = steps + 1
    /\ chain' = <<>>
    /\ v_cur' = <<>>
    /\ UNCHANGED <<n_visible, n_hidden, delay, rng_seed, W, A, B, hbias, vbias,
                   lr, k, chain_end, gparams, cost, driver_vars>>

\* gibbs_hvh, first half: sample_v_given_h on the hidden state of the scan.
gibbs_hvh_v ==
    /\ pc = "sample_v"
    /\ LET v == sample_v_given_h(scan_state(ph_sample, chain), input_history)
       IN /\ v_cur' = [h0_sample |-> scan_state(ph_sample, chain),
                       v_history |-> input_history,
                       v1_mean |-> v.v1_mean,
                       v1_sample |-> v.v1_sample]
          /\ rng' = rng + v.draws
    /\ pc' = "sample_h"
    /\ UNCHANGED <<n_visible, n_hidden, delay, rng_seed, W, A, B, hbias, vbias,
                   lr, k, input, input_history, ph_sample, chain, chain_end,
                   gparams, cost, status, steps, driver_vars>>

\* gibbs_hvh, second half: sample_h_given_v on that visible sample; the
\* step's outputs are appended to the outputs of the scan.
gibbs_hvh_h ==
    /\ pc = "sample_h"
    /\ LET h == sample_h_given_v(v_cur.v1_sample, input_history, rng)
       IN /\ chain' = Append(chain,
                             [h0_sample |-> v_cur.h0_sample,
                              v_history |-> v_cur.v_history,
                              v1_mean |-> v_cur.v1_mean,
                              v1_sample |-> v_cur.v1_sample,
                              h1_sample |-> h.h1_sample])
          /\ rng' = rng + h.draws
    /\ pc' = IF Len(chain) + 1 < k THEN "sample_v" ELSE "grad"
    /\ v_cur' = <<>>
    /\ UNCHANGED <<n_visible, n_hidden, delay, rng_seed, W, A, B, hbias, vbias,
                   lr, k, input, input_history, ph_sample, chain_end, gparams,
                   cost, status, steps, driver_vars>>

\* The rest of the call: chain_end, the gradients, the update of the five
\* parameters and the monitoring cost.  With no step scanned there is no
\* nv_samples[-1]: the function fails when it runs, and no update is applied.
apply_updates ==
    /\ pc = "grad"
    /\ IF chain = <<>>
       THEN /\ status' = "failed"
            /\ UNCHANGED <<W, A, B, hbias, vbias, chain_end, gparams, cost>>
       ELSE LET nv_samples == AsSeq([i \in 1..Len(chain) |-> chain[i].v1_sample])
                nv_means == AsSeq([i \in 1..Len(chain) |-> chain[i].v1_mean])
                gp == T_grad(input, input_history, Last(nv_samples))
            IN /\ chain_end' = Last(nv_samples)
               /\ gparams' = gp
               /\ W' = updated_matrix("W", W, gp.W)
               /\ A' = updated_matrix("A", A, gp.A)
               /\ B' = updated_matrix("B", B, gp.B)
               /\ hbias' = updated_vector("hbias", hbias, gp.hbias)
               /\ vbias' = updated_vector("vbias", vbias, gp.vbias)
               /\ cost' = get_reconstruction_cost(input, nv_means_at_end(nv_means))
               /\ status' = "ok"
    /\ pc' = "ready"
    /\ UNCHANGED <<n_visible, n_hidden, delay, rng_seed, lr, k, input,
                   input_history, ph_sample, v_cur, chain, rng, steps,
                   driver_vars>>

Next ==
    \/ get_cost_updates
    \/ train_call
    \/ gibbs_hvh_v
    \/ gibbs_hvh_h
    \/ apply_updates

Spec == Init /\ [][Next]_vars

(***************************************************************************)
(* The driver train_crbm: the indices it hands to the training function.   *)
(* Frames are numbered from 0 as in the source.                            *)
(***************************************************************************)
Max(a, b) == IF a >= b THEN a ELSE b

Min(a, b) == IF a <= b THEN a ELSE b

\* range(last + delay - 1, last + s): one start index too many.
batchdataindex_early(len, d) ==
    AsSeq([i \in 1..Max(len - d + 1, 0) |-> d + i - 2])

\* batchdataindex: range(last + delay, last + s) for the one sequence.
batchdataindex(len, d) ==
    AsSeq([i \in 1..Max(len - d, 0) |-> d + i - 1])

\* The results of rng.shuffle(permindex): every ordering of the indices.
shuffle(idx) ==
    {AsSeq([i \in 1..Len(idx) |-> idx[p[i]]]) :
        p \in {q \in [1..Len(idx) -> 1..Len(idx)] :
                 \A i, j \in 1..Len(idx) : q[i] = q[j] => i = j}}

\* int(shape[0] / batch_size)
n_train_batches == seqlen \div batch_size

\* seq[lo:hi] of Python, positions counted from 0.
slice(seq, lo, hi) ==
    AsSeq([i \in 1..Max(Min(hi, Len(seq)) - Min(lo, Len(seq)), 0) |-> seq[lo + i]])

\* np.array([data_idx - n for n in range(1, delay + 1)]).T: one row an index.
history_indices(didx, d) ==
    AsSeq([i \in 1..Len(didx) |-> AsSeq([n \in 1..d |-> didx[i] - n])])

\* hist_idx.ravel()
RECURSIVE ravel(_)
ravel(M) == IF M = <<>> THEN <<>> ELSE M[1] \o ravel(Tail(M))

\* Whether batchdata[index_hist].reshape((batch_size, delay * n_dim)) succeeds
\* for an index of n_idx entries.
reshape_ok(n_idx) == n_idx * n_visible = batch_size * (delay * n_visible)

NoModel ==
    /\ n_hidden = 0 /\ rng_seed = 0
    /\ W = <<>> /\ A = <<>> /\ B = <<>> /\ hbias = <<>> /\ vbias = <<>>
    /\ lr = RZero /\ k = 1 /\ pc = "off"
    /\ input = <<>> /\ input_history = <<>>
    /\ ph_sample = <<>> /\ v_cur = <<>> /\ chain = <<>> /\ chain_end = <<>>
    /\ rng = 0 /\ gparams = <<>> /\ cost = RZero /\ status = "none" /\ steps = 0

\* train_crbm up to the first epoch; n_visible is n_dim.
TrainInit ==
    /\ seqlen \in 1..MaxSeqLen
    /\ batch_size \in 1..MaxBatch
    /\ delay \in 1..MaxDelay
    /\ training_epochs \in 1..MaxEpochs
    /\ n_visible \in {s[1] : s \in Sizes}
    /\ permindex \in shuffle(batchdataindex(seqlen, delay))
    /\ epoch = 0 /\ batch_index = 0
    /\ data_idx = <<>> /\ hist_idx = <<>>
    /\ n_calls = 0
    /\ dpc = "loop"
    /\ NoModel

\* One pass of the loop over batch_index: the indices are built and the
\* training function is called; a failed reshape raises ValueError, which
\* ends train_crbm.
train_batch ==
    /\ dpc = "loop"
    /\ epoch < training_epochs
    /\ batch_index < n_train_batches
    /\ LET didx == slice(permindex, batch_index * batch_size,
                         (batch_index + 1) * batch_size)
           hidx == history_indices(didx, delay)
       IN /\ data_idx' = didx
          /\ hist_idx' = hidx
          /\ IF reshape_ok(Len(ravel(hidx)))
             THEN /\ batch_index' = batch_index + 1
                  /\ dpc' = "loop"
             ELSE /\ dpc' = "ValueError"
                  /\ UNCHANGED batch_index
    /\ n_calls' = n_calls + 1
    /\ UNCHANGED <<crbm_vars, delay, seqlen, batch_size, training_epochs,
                   permindex, epoch>>

\* The end of one epoch.
end_epoch ==
    /\ dpc = "loop"
    /\ epoch < training_epochs
    /\ batch_index = n_train_batches
    /\ epoch' = epoch + 1
    /\ batch_index' = 0
    /\ UNCHANGED <<crbm_vars, delay, seqlen, batch_size, training_epochs,
                   permindex, data_idx, hist_idx, n_calls, dpc>>

\* return crbm
train_return ==
    /\ dpc = "loop"
    /\ epoch = training_epochs
    /\ dpc' = "done"
    /\ UNCHANGED <<crbm_vars, delay, seqlen, batch_size, training_epochs,
                   permindex, epoch, batch_index, data_idx, hist_idx, n_calls>>

TrainNext ==
    \/ train_batch
    \/ end_epoch
    \/ train_return

TrainSpec == TrainInit /\ [][TrainNext]_vars

(***************************************************************************)
(* Properties.                                                             *)
(***************************************************************************)
Params == <<W, A, B, hbias, vbias>>

\* A call of the training function ran to its end in this step.
StepDone == pc = "grad" /\ status' = "ok"

\* sum over i in 1..n of f[i], for a function f of rationals.
Sigma(f, n) == RSum(AsSeq([i \in 1..n |-> f[i]]))

\* h . W^T + v_history . A + vbias at row r, column i, written out.
VisibleMeanAt(h, v_history, r, i) ==
    RAdd(RAdd(Sigma([j \in 1..n_hidden |-> RMul(h[r][j], W[i][j])], n_hidden),
              Sigma([l \in 1..(n_visible * delay) |-> RMul(v_history[r][l], A[l][i])],
                    n_visible * delay)),
         vbias[i])

\* sigmoid(v . W + v_history . B + hbias) at row r, column j, written out.
HiddenMeanAt(v, v_history, r, j) ==
    sigmoid(RAdd(RAdd(Sigma([i \in 1..n_visible |-> RMul(v[r][i], W[i][j])], n_visible),
                      Sigma([l \in 1..(n_visible * delay) |-> RMul(v_history[r][l], B[l][j])],
                            n_visible * delay)),
                 hbias[j]))

\* C1: get_cost_updates called with k < 1 is rejected: it never returns a
\* cost and update set (the machine never gets past construction with k < 1).
C1_ZeroStepsRejected == pc # "constructed" => k >= 1

\* The caller contract of a training step is violated by x and x_history.
ContractViolated(x, x_history) ==
    \/ Rows(x) # Rows(x_history)
    \/ Cols(x_history) # n_visible * delay

\* C2: a training call whose inputs violate the caller contract (rows of x
\* differ from rows of x_history, or the history row length is not
\* n_visible * delay) ends with ValueError at the call, and leaves W, A, B,
\* hbias and vbias as they were.
C2_ContractViolationRejected ==
    [][(steps' = steps + 1 /\ ContractViolated(input', input_history'))
        => (status' = "ValueError" /\ pc' = "ready" /\ Params' = Params)]_vars

C2_Witness ==
    /\ status = "ValueError"
    /\ steps >= 1
    /\ Rows(input) # Rows(input_history)
    /\ Cols(input_history) = n_visible * delay

\* C3: a finished step replaces every p in {W, B, hbias, vbias} by
\* p - lr * grad(p) and A by A - 0.01 * lr * grad(A): the change of A times
\* 100 is lr * grad(A), the change of every other parameter is lr * grad(p).
C3_UpdateRule ==
    [][StepDone =>
        /\ \A r \in 1..Rows(W) : \A c \in 1..Cols(W) :
             RSub(W[r][c], W'[r][c]) = RMul(lr, gparams'.W[r][c])
        /\ \A r \in 1..Rows(B) : \A c \in 1..Cols(B) :
             RSub(B[r][c], B'[r][c]) = RMul(lr, gparams'.B[r][c])
        /\ \A j \in 1..Len(hbias) :
             RSub(hbias[j], hbias'[j]) = RMul(lr, gparams'.hbias[j])
        /\ \A i \in 1..Len(vbias) :
             RSub(vbias[i], vbias'[i]) = RMul(lr, gparams'.vbias[i])
        /\ \A r \in 1..Rows(A) : \A c \in 1..Cols(A) :
             RMul(FromInt(100), RSub(A[r][c], A'[r][c])) = RMul(lr, gparams'.A[r][c])
      ]_vars

C3_Witness ==
    /\ status = "ok"
    /\ \E r \in 1..Rows(A) : gparams.A[r][1] # RZero
    /\ gparams.W[1][1] # RZero
    /\ gparams.vbias[1] # RZero

\* The visible part of the cost, mean(visible_term(x)) - mean(visible_term(c)),
\* as a function of A and vbias, the chain end c being a constant.
VisibleCost(x, v_history, c, Am, vb) ==
    RSub(Mean(visible_term(x, v_history, Am, vb)),
         Mean(visible_term(c, v_history, Am, vb)))

\* v with 1 added to element i; M with 1 added to element (l, i).
BumpV(v, i) == [v EXCEPT ![i] = RAdd(@, FromInt(1))]

BumpM(M, l, i) == [M EXCEPT ![l][i] = RAdd(@, FromInt(1))]

\* C4: the gradients of a finished step are the derivatives of
\* mean(free_energy(x, h)) - mean(free_energy(c, h)) with the chain end c a
\* constant: written out per parameter with c fixed, and, for vbias and A (in
\* which that cost is linear once c is fixed), equal to the change of the
\* cost when one element grows by 1 and c stays put.
C4_ChainEndConstant ==
    [][StepDone =>
        LET x == input
            h == input_history
            c == chain_end'
            n == Rows(input)
            g == gparams'
            Avg(f) == RDivInt(Sigma(f, n), n)
        IN /\ \A i \in 1..n_visible :
                /\ g.vbias[i] = Avg([r \in 1..n |-> RSub(c[r][i], x[r][i])])
                /\ g.vbias[i] = RSub(VisibleCost(x, h, c, A, BumpV(vbias, i)),
                                     VisibleCost(x, h, c, A, vbias))
           /\ \A l \in 1..(n_visible * delay) : \A i \in 1..n_visible :
                /\ g.A[l][i] = Avg([r \in 1..n |->
                                      RMul(h[r][l], RSub(c[r][i], x[r][i]))])
                /\ g.A[l][i] = RSub(VisibleCost(x, h, c, BumpM(A, l, i), vbias),
                                    VisibleCost(x, h, c, A, vbias))
           /\ \A j \in 1..n_hidden :
                g.hbias[j] = Avg([r \in 1..n |->
                                    RSub(HiddenMeanAt(c, h, r, j),
                                         HiddenMeanAt(x, h, r, j))])
           /\ \A l \in 1..(n_visible * delay) : \A j \in 1..n_hidden :
                g.B[l][j] = Avg([r \in 1..n |->
                                   RMul(h[r][l], RSub(HiddenMeanAt(c, h, r, j),
                                                      HiddenMeanAt(x, h, r, j)))])
           /\ \A i \in 1..n_visible : \A j \in 1..n_hidden :
                g.W[i][j] = Avg([r \in 1..n |->
                                   RSub(RMul(c[r][i], HiddenMeanAt(c, h, r, j)),
                                        RMul(x[r][i], HiddenMeanAt(x, h, r, j)))])
      ]_vars

C4_Witness ==
    /\ status = "ok"
    /\ steps >= 2
    /\ chain_end # input
    /\ gparams.vbias[1] # RZero
    /\ \E r \in 1..Rows(A) : gparams.A[r][1] # RZero

\* C5: the negative phase starts from ph_sample and applies gibbs_hvh k times
\* in sequence, every step taking the hidden sample of the step before and
\* the same input history; the chain end is the visible sample of step k.
C5_ChainOfKSteps ==
    /\ Len(chain) <= Max(k, 0)
    /\ \A i \in 1..Len(chain) :
         /\ chain[i].h0_sample = IF i = 1 THEN ph_sample
                                          ELSE chain[i - 1].h1_sample
         /\ chain[i].v_history = input_history
    /\ pc \in {"sample_v", "sample_h", "grad"} =>
         \A i \in 1..Len(chain) :
            chain[i].v1_sample = propdown(chain[i].h0_sample, input_history)
    /\ pc = "grad" => Len(chain) = Max(k, 0)
    /\ status = "ok" =>
         /\ k >= 1
         /\ Len(chain) = k
         /\ chain_end = chain[k].v1_sample

C5_Witness ==
    /\ status = "ok"
    /\ k = 2
    /\ chain[1].h1_sample # ph_sample
    /\ chain[1].v1_sample # chain[2].v1_sample

\* C6: sample_v_given_h draws nothing and returns the visible mean as the
\* sample: the step leaves the random stream where it was, and sample and
\* mean both equal h . W^T + v_history . A + vbias, a function of the inputs
\* and the parameters alone.
C6_VisibleSampleIsMean ==
    [][pc = "sample_v" =>
        /\ rng' = rng
        /\ v_cur'.v1_sample = v_cur'.v1_mean
        /\ \A r \in 1..Rows(input) : \A i \in 1..n_visible :
             v_cur'.v1_sample[r][i] =
                VisibleMeanAt(v_cur'.h0_sample, v_cur'.v_history, r, i)
        /\ Shape(v_cur'.v1_sample) = <<Rows(input), n_visible>>
      ]_vars

C6_Witness ==
    /\ pc = "sample_h"
    /\ rng > 0
    /\ \E r \in 1..Rows(input) :
         v_cur.v1_sample[r][1][1] # 0 /\ v_cur.v1_sample[r][1][2] # 1

\* C7: the monitoring cost of a finished step is the mean over the rows of
\* the sum over the visible dimensions of (x - m)^2, m being the visible mean
\* of step k of the chain, computed with the parameters as they were before
\* the update.
C7_MonitoringCost ==
    [][StepDone =>
        LET n == Rows(input)
            m(r, i) == VisibleMeanAt(chain[k].h0_sample, input_history, r, i)
            err(r) == Sigma([i \in 1..n_visible |->
                               RSqr(RSub(input[r][i], m(r, i)))], n_visible)
        IN /\ k >= 1
           /\ RMul(cost', FromInt(n)) = Sigma([r \in 1..n |-> err(r)], n)
      ]_vars

C7_Witness ==
    /\ status = "ok"
    /\ k = 2
    /\ Rows(input) = 2
    /\ chain[1].v1_mean # chain[2].v1_mean
    /\ cost # RZero
    /\ steps >= 2

\* Every row of M has cols elements and M has rows rows.
HasShape(M, rows, cols) ==
    Len(M) = rows /\ \A r \in 1..Len(M) : Len(M[r]) = cols

\* C8: after construction and after any sequence of training steps W is
\* (n_visible, n_hidden), A is (n_visible * delay, n_visible), B is
\* (n_visible * delay, n_hidden), hbias has n_hidden and vbias n_visible
\* elements.
C8_ShapesFixed ==
    /\ HasShape(W, n_visible, n_hidden)
    /\ HasShape(A, n_visible * delay, n_visible)
    /\ HasShape(B, n_visible * delay, n_hidden)
    /\ Len(hbias) = n_hidden
    /\ Len(vbias) = n_visible

C8_Witness ==
    /\ status = "ok"
    /\ steps >= 2
    /\ delay = 2
    /\ \E r \in 1..Rows(A) : gparams.A[r][1] # RZero

\* C9: every call of the training function made by train_crbm passes
\* batch_size data indices and batch_size * delay history indices.
C9_FullBatches ==
    n_calls > 0 =>
        /\ Len(data_idx) = batch_size
        /\ Len(ravel(hist_idx)) = batch_size * delay

\* C10: for every data index t of a call, the history row of t is
\* t-1, t-2, ..., t-delay in that order, and each of these lies in
\* 0 .. len(dataset) - 1.
C10_HistoryRows ==
    n_calls > 0 =>
        /\ Len(hist_idx) = Len(data_idx)
        /\ \A i \in 1..Len(data_idx) :
             /\ Len(hist_idx[i]) = delay
             /\ \A n \in 1..delay :
                  /\ hist_idx[i][n] = data_idx[i] - n
                  /\ hist_idx[i][n] >= 0
                  /\ hist_idx[i][n] <= seqlen - 1

C10_Witness ==
    /\ n_calls > 0
    /\ delay = 2
    /\ Len(data_idx) = 2
    /\ \E i \in 1..Len(data_idx) : hist_idx[i] = <<1, 0>>

====
